---- MODULE Spec2Model ----
(***************************************************************************)
(* A model of evremap-gtk's key-combination type (src/src/key_combo.rs)    *)
(* and of its event logger component (src/src/components/event_logger.rs). *)
(***************************************************************************)
EXTENDS Integers, Sequences, FiniteSets, TLC

\* ------------------------------------------------------------------ bounds

\* How many non-modifier key codes the callers push or load.
NumOrdinary == 2
\* The longest key sequence a combination is constructed from.
MaxLen == 3
\* How many times the event logger is given a device (workers spawned).
MaxSpawn == 2
\* How many key events are in the command channel and in the log together.
MaxEvents == 2

\* ------------------------------------------------------------- key codes

\* Option::None, for an Option<KeyCode>.
None == "None"

\* key_combo.rs:30 MODIFIERS, in declared order.
MODIFIERS ==
    << "KEY_FN", "KEY_LEFTALT", "KEY_RIGHTALT", "KEY_LEFTMETA", "KEY_RIGHTMETA",
       "KEY_LEFTCTRL", "KEY_RIGHTCTRL", "KEY_LEFTSHIFT", "KEY_RIGHTSHIFT" >>

\* Some key codes that are not modifiers.
OrdinaryPool == << "KEY_A", "KEY_B", "KEY_C", "KEY_D", "KEY_E" >>

Min(a, b) == IF a < b THEN a ELSE b

OrdinaryKeys == { OrdinaryPool[i] : i \in 1..Min(NumOrdinary, Len(OrdinaryPool)) }

Range(s) == { s[i] : i \in DOMAIN s }

\* The key codes the model draws its inputs from.
KeyCodes == Range(MODIFIERS) \cup OrdinaryKeys

\* The key codes a constructed combination is loaded from and edited with: the
\* first, two middle and the last modifier, and the non-modifier keys.
BuiltKeys ==
    { "KEY_FN", "KEY_LEFTCTRL", "KEY_LEFTSHIFT", "KEY_RIGHTSHIFT" } \cup OrdinaryKeys

\* key_combo.rs:4 is_modifier: the matches! over the nine modifier codes.
is_modifier(key) ==
    key \in { "KEY_FN", "KEY_LEFTALT", "KEY_RIGHTALT", "KEY_LEFTMETA",
              "KEY_RIGHTMETA", "KEY_LEFTCTRL", "KEY_RIGHTCTRL", "KEY_LEFTSHIFT",
              "KEY_RIGHTSHIFT" }

\* ------------------------------------------------------ u16 bit arithmetic

\* The operators of a u16 mask with a one-bit operand bit = 1 << n.
\* mask & bit != 0
BitTest(mask, bit) == (mask \div bit) % 2 = 1
\* mask | bit
BitOr(mask, bit) == IF BitTest(mask, bit) THEN mask ELSE (mask + bit) % 65536
\* mask & !bit
BitAndNot(mask, bit) == IF BitTest(mask, bit) THEN mask - bit ELSE mask

\* ------------------------------------------------------- ModifierKeysMask

\* key_combo.rs:56 from_keycode: <<mask>> for Some(mask), << >> for None.
from_keycode(key) ==
    CASE key = "KEY_FN" -> << 1 >>
      [] key = "KEY_LEFTALT" -> << 2 >>
      [] key = "KEY_RIGHTALT" -> << 4 >>
      [] key = "KEY_LEFTMETA" -> << 8 >>
      [] key = "KEY_RIGHTMETA" -> << 16 >>
      [] key = "KEY_LEFTCTRL" -> << 32 >>
      [] key = "KEY_RIGHTCTRL" -> << 64 >>
      [] key = "KEY_LEFTSHIFT" -> << 128 >>
      [] key = "KEY_RIGHTSHIFT" -> << 256 >>
      [] OTHER -> << >>

\* A slip: += in place of |=.
add_plus(mask, key) ==
    LET keymask == from_keycode(key)
    IN  IF keymask # << >> THEN (mask + keymask[1]) % 65536 ELSE mask

\* key_combo.rs:74 ModifierKeysMask::add
add(mask, key) ==
    LET keymask == from_keycode(key)
    IN  IF keymask # << >> THEN BitOr(mask, keymask[1]) ELSE mask

\* key_combo.rs:80 ModifierKeysMask::remove
remove(mask, key) ==
    LET keymask == from_keycode(key)
    IN  IF keymask # << >> THEN BitAndNot(mask, keymask[1]) ELSE mask

\* key_combo.rs:86 ModifierKeysMask::contains
contains(mask, key) ==
    LET keymask == from_keycode(key)
    IN  IF keymask # << >> THEN BitTest(mask, keymask[1]) ELSE FALSE

Reverse(s) == [i \in 1..Len(s) |-> s[Len(s) + 1 - i]]

\* A slip: the modifiers are walked from the last declared to the first.
into_iter_rev(mask) == SelectSeq(Reverse(MODIFIERS), LAMBDA k : contains(mask, k))

\* key_combo.rs:94 ModifierKeysMask::into_iter
into_iter(mask) == SelectSeq(MODIFIERS, LAMBDA k : contains(mask, k))

\* The for loop of ModifierKeysMask::pop, at index i of MODIFIERS, going down.
RECURSIVE mask_pop_rev(_, _)
mask_pop_rev(mask, i) ==
    IF i = 0 THEN [mask |-> mask, ret |-> None]
    ELSE IF contains(mask, MODIFIERS[i])
         THEN [mask |-> remove(mask, MODIFIERS[i]), ret |-> MODIFIERS[i]]
         ELSE mask_pop_rev(mask, i - 1)

\* The same loop without .rev(), going up.
RECURSIVE mask_pop_fwd(_, _)
mask_pop_fwd(mask, i) ==
    IF i > Len(MODIFIERS) THEN [mask |-> mask, ret |-> None]
    ELSE IF contains(mask, MODIFIERS[i])
         THEN [mask |-> remove(mask, MODIFIERS[i]), ret |-> MODIFIERS[i]]
         ELSE mask_pop_fwd(mask, i + 1)

\* A slip: .rev() forgotten.
mask_pop_norev(mask) ==
    IF mask = 0 THEN [mask |-> mask, ret |-> None] ELSE mask_pop_fwd(mask, 1)

\* key_combo.rs:98 ModifierKeysMask::pop: the new mask and the returned key.
mask_pop(mask) ==
    IF mask = 0 THEN [mask |-> mask, ret |-> None]
    ELSE mask_pop_rev(mask, Len(MODIFIERS))

\* --------------------------------------------------------- KeyCombination

\* key_combo.rs:114 KeyCombination::default
EmptyCombination == [modifiers |-> 0, keys |-> << >>]

\* key_combo.rs:121 KeyCombination::clear
clear(c) == [modifiers |-> 0, keys |-> << >>]

\* A slip: the contains check forgotten.
push_nodedup(c, key) ==
    IF is_modifier(key)
    THEN [c EXCEPT !.modifiers = add(c.modifiers, key)]
    ELSE [c EXCEPT !.keys = Append(c.keys, key)]

\* A slip: a modifier is appended to the keys like any other key.
push_unclassified(c, key) ==
    IF ~(\E i \in DOMAIN c.keys : c.keys[i] = key)
    THEN [c EXCEPT !.keys = Append(c.keys, key)]
    ELSE c

\* key_combo.rs:126 KeyCombination::push
push(c, key) ==
    IF is_modifier(key)
    THEN [c EXCEPT !.modifiers = add(c.modifiers, key)]
    ELSE IF ~(\E i \in DOMAIN c.keys : c.keys[i] = key)
         THEN [c EXCEPT !.keys = Append(c.keys, key)]
         ELSE c

\* A slip: the modifiers are popped first.
pop_modfirst(c) ==
    IF c.modifiers # 0
    THEN LET r == mask_pop(c.modifiers)
         IN  [c |-> [c EXCEPT !.modifiers = r.mask], ret |-> r.ret]
    ELSE IF c.keys # << >>
         THEN [c |-> [c EXCEPT !.keys = SubSeq(c.keys, 1, Len(c.keys) - 1)],
               ret |-> c.keys[Len(c.keys)]]
         ELSE [c |-> c, ret |-> None]

\* key_combo.rs:134 KeyCombination::pop: the new combination and the returned key.
pop(c) ==
    IF c.keys # << >>
    THEN [c |-> [c EXCEPT !.keys = SubSeq(c.keys, 1, Len(c.keys) - 1)],
          ret |-> c.keys[Len(c.keys)]]
    ELSE LET r == mask_pop(c.modifiers)
         IN  [c |-> [c EXCEPT !.modifiers = r.mask], ret |-> r.ret]

\* key_combo.rs:142 KeyCombination::iter
iter(c) == into_iter(c.modifiers) \o c.keys

\* key_combo.rs:146 KeyCombination::to_keys
to_keys(c) == into_iter(c.modifiers) \o c.keys

\* The for loop of from_iter over the keys v[i..].
RECURSIVE from_iter_loop(_, _, _)
from_iter_loop(res, v, i) ==
    IF i > Len(v) THEN res
    ELSE from_iter_loop(
             IF is_modifier(v[i])
             THEN [res EXCEPT !.modifiers = add(res.modifiers, v[i])]
             ELSE [res EXCEPT !.keys = Append(res.keys, v[i])],
             v, i + 1)

\* A slip: the keys are not classified.
from_iter_unclassified(v) == [modifiers |-> 0, keys |-> v]

\* key_combo.rs:160 FromIterator<KeyCode> for KeyCombination (and From<Vec<KeyCode>>)
from_iter(v) == from_iter_loop(EmptyCombination, v, 1)

\* ------------------------------------------------------------------ state

VARIABLES
    combo,      \* the KeyCombination of a key sequence editor (key_seq.rs:46)
    last,       \* the last call on combo: its name, argument and return value
    src,        \* the key sequence combo was just constructed from, else << >>
    held,       \* history: the keys pushed or loaded and not popped since
    stamp,      \* history: the insertion rank of each held non-modifier key
    device,     \* EventLogger.device: << >> for None, <<DeviceLoggerState>> for Some
    text_buf,   \* EventLogger.text_buf: the lines of the log, oldest first
    is_paused,  \* EventLogger.is_paused
    tasks,      \* the workers spawned by set_device, each with its stop channel
    cmdq,       \* the command channel from the workers to the component
    crashed,    \* the component panicked
    missed,     \* history: an event was handled with a device active and not
                \* logged, since the log was last emptied
    io,         \* history: the outcomes of the workers' device calls, when traced
    listing,    \* the entries of /dev/input, in the order read_dir yields them
    answer,     \* what the last call of DeviceInfo::with_name returned
    listed,     \* what the last call of DeviceInfo::obtain_device_list returned
    device_browser, \* AppModel.device_browser: the devices the browser shows
    cfg_name,   \* AppModel.config.name: the text of the device name entry
    cfg_phys,   \* AppModel.config.phys: the text of the device phys entry
    picked,     \* history: the device of the last AppMsg::SetDevice
    opened      \* history: the files the last obtain_device_list opened

comboVars == << combo, last, src, held, stamp >>

loggerVars ==
    << device, text_buf, is_paused, tasks, cmdq, crashed, missed, io >>

resolverVars ==
    << listing, answer, listed, device_browser, cfg_name, cfg_phys, picked,
       opened >>

vars ==
    << combo, last, src, held, stamp,
       device, text_buf, is_paused, tasks, cmdq, crashed, missed, io,
       listing, answer, listed, device_browser, cfg_name, cfg_phys, picked,
       opened >>

\* All key sequences of length at most n over the key codes.
SeqsUpTo(S, n) == UNION { [1..m -> S] : m \in 0..n }

MaxStamp(st) ==
    IF OrdinaryKeys = {} THEN 0
    ELSE CHOOSE m \in { st[k] : k \in OrdinaryKeys } :
             \A k \in OrdinaryKeys : st[k] <= m

\* The history after a key is inserted: a key that is not held gets the next rank.
StampAfterPush(st, h, key) ==
    IF key \in OrdinaryKeys /\ key \notin h
    THEN [st EXCEPT ![key] = MaxStamp(st) + 1]
    ELSE st

RECURSIVE StampOfSeq(_, _, _, _)
StampOfSeq(st, h, v, i) ==
    IF i > Len(v) THEN st
    ELSE StampOfSeq(StampAfterPush(st, h, v[i]), h \cup {v[i]}, v, i + 1)

NoStamp == [k \in OrdinaryKeys |-> 0]

\* ------------------------------------------------------------ EventLogger

\* The devices the user picks in the device browser.
Devices == { "event3", "event7" }

\* The key events a device yields: a key code and a raw value.
KeyEvents == { [key |-> "KEY_A", value |-> 1], [key |-> "KEY_A", value |-> 0] }

\* What one blocking next_event call returns: a key event, an event of another
\* type, ReadStatus::Sync, or an I/O error.
ReadOutcomes ==
    { [kind |-> "key", ev |-> e] : e \in KeyEvents }
        \cup { [kind |-> k] : k \in { "other", "sync", "err" } }

\* event_logger.rs:163 EventLogger::init, launched with None (main.rs:374).
InitLogger ==
    /\ device = << >>
    /\ text_buf = << >>
    /\ is_paused = TRUE
    /\ tasks = << >>
    /\ cmdq = << >>
    /\ crashed = FALSE
    /\ missed = FALSE
    /\ io = << >>

\* What bg_recv.try_recv() does not answer with Empty: a Stop is queued, or the
\* sender of the channel was dropped.
StopVisible(t) == t.stops > 0 \/ ~t.sender

\* The worker is between spawn and the return of event_logger_task.
Running(t) == t.pc # "done"

\* Dropping the DeviceLoggerState a component holds drops its bg_task_sender.
DropState(ts, dv) ==
    IF dv = << >> THEN ts ELSE [ts EXCEPT ![dv[1].chan].sender = FALSE]

\* A worker as spawn_command starts it, with the receiver of a new channel.
NewTask(dev) ==
    [dev |-> dev, pc |-> "open", stops |-> 0, sender |-> TRUE, late |-> 0]

\* A worker whose event_logger_task has returned: dev, the device handle and
\* bg_recv, with what was queued in it, are dropped.
Returned(t, late) == [t EXCEPT !.pc = "done", !.dev = None, !.stops = 0, !.late = late]

\* A slip: pausing also asks the worker of the active device to stop.
PauseStopsWorker ==
    /\ ~crashed
    /\ is_paused' = TRUE
    /\ tasks' = IF device = << >> THEN tasks
                ELSE [tasks EXCEPT ![device[1].chan].stops = 1]
    /\ UNCHANGED << device, text_buf, cmdq, crashed >>
    /\ UNCHANGED << missed, io >>
    /\ UNCHANGED << comboVars, resolverVars >>

\* event_logger.rs:185 EventLoggerMsg::Pause
Pause ==
    /\ ~crashed
    /\ is_paused' = TRUE
    /\ UNCHANGED << device, text_buf, tasks, cmdq, crashed >>
    /\ UNCHANGED << missed, io >>
    /\ UNCHANGED << comboVars, resolverVars >>

\* event_logger.rs:186 EventLoggerMsg::Resume
Resume ==
    /\ ~crashed
    /\ is_paused' = FALSE
    /\ UNCHANGED << device, text_buf, tasks, cmdq, crashed >>
    /\ UNCHANGED << missed, io >>
    /\ UNCHANGED << comboVars, resolverVars >>

\* A slip: emptying the log also asks the worker of the active device to stop.
ClearLogStops ==
    /\ ~crashed
    /\ is_paused' = TRUE
    /\ text_buf' = << >>
    /\ tasks' = IF device = << >> THEN tasks
                ELSE [tasks EXCEPT ![device[1].chan].stops = 1]
    /\ UNCHANGED << device, cmdq, crashed >>
    /\ missed' = FALSE
    /\ UNCHANGED io
    /\ UNCHANGED << comboVars, resolverVars >>

\* event_logger.rs:187 EventLoggerMsg::Clear
ClearLog ==
    /\ ~crashed
    /\ is_paused' = TRUE
    /\ text_buf' = << >>
    /\ UNCHANGED << device, tasks, cmdq, crashed >>
    /\ missed' = FALSE
    /\ UNCHANGED io
    /\ UNCHANGED << comboVars, resolverVars >>

\* A slip: the old DeviceLoggerState is kept alive, its sender with it.
SetDeviceLeak(dev) ==
    /\ ~crashed
    /\ Len(tasks) < MaxSpawn
    /\ is_paused' = TRUE
    /\ text_buf' = << >>
    /\ device' = << [device |-> dev, chan |-> Len(tasks) + 1] >>
    /\ tasks' = Append(tasks, NewTask(dev))
    /\ UNCHANGED << cmdq, crashed >>
    /\ missed' = FALSE
    /\ UNCHANGED io
    /\ UNCHANGED << comboVars, resolverVars >>

\* A slip: the log is not emptied.
SetDeviceKeepLog(dev) ==
    /\ ~crashed
    /\ Len(tasks) < MaxSpawn
    /\ is_paused' = TRUE
    /\ device' = << [device |-> dev, chan |-> Len(tasks) + 1] >>
    /\ tasks' = Append(DropState(tasks, device), NewTask(dev))
    /\ UNCHANGED << text_buf, cmdq, crashed >>
    /\ missed' = FALSE
    /\ UNCHANGED io
    /\ UNCHANGED << comboVars, resolverVars >>

\* event_logger.rs:191 EventLoggerMsg::SetDevice(dev): set_device (251-265).
\* Assigning self.device drops the state it held.
SetDevice(dev) ==
    /\ ~crashed
    /\ Len(tasks) < MaxSpawn
    /\ is_paused' = TRUE
    /\ text_buf' = << >>
    /\ device' = << [device |-> dev, chan |-> Len(tasks) + 1] >>
    /\ tasks' = Append(DropState(tasks, device), NewTask(dev))
    /\ UNCHANGED << cmdq, crashed >>
    /\ missed' = FALSE
    /\ UNCHANGED io
    /\ UNCHANGED << comboVars, resolverVars >>

\* A slip: the device is forgotten and its worker is sent nothing; the sender
\* is dropped with the state.
ClearDeviceNoStop ==
    /\ ~crashed
    /\ is_paused' = TRUE
    /\ text_buf' = << >>
    /\ device' = << >>
    /\ tasks' = DropState(tasks, device)
    /\ UNCHANGED << cmdq, crashed >>
    /\ missed' = FALSE
    /\ UNCHANGED io
    /\ UNCHANGED << comboVars, resolverVars >>

\* event_logger.rs:192 EventLoggerMsg::ClearDevice: clear_device (267-273).
\* send fails, and unwrap panics, when the worker has returned and dropped
\* the receiver.
ClearDevice ==
    /\ ~crashed
    /\ is_paused' = TRUE
    /\ text_buf' = << >>
    /\ device' = << >>
    /\ IF device = << >>
       THEN UNCHANGED << tasks, crashed >>
       ELSE LET w == device[1].chan
            IN  IF Running(tasks[w])
                THEN /\ tasks' = [tasks EXCEPT ![w].stops = @ + 1,
                                               ![w].sender = FALSE]
                     /\ UNCHANGED crashed
                ELSE /\ tasks' = [tasks EXCEPT ![w].sender = FALSE]
                     /\ crashed' = TRUE
    /\ UNCHANGED cmdq
    /\ missed' = FALSE
    /\ UNCHANGED io
    /\ UNCHANGED << comboVars, resolverVars >>

\* A slip: an event is logged whatever the pause flag is.
UpdateCmdIgnorePause ==
    /\ ~crashed
    /\ cmdq # << >>
    /\ LET m == Head(cmdq)
       IN  /\ cmdq' = Tail(cmdq)
           /\ IF m.type = "NewEvent" /\ device # << >>
              THEN text_buf' = Append(text_buf,
                                      [key |-> m.key, value |-> m.value])
              ELSE UNCHANGED text_buf
    /\ UNCHANGED << device, is_paused, tasks, crashed, missed, io >>
    /\ UNCHANGED << comboVars, resolverVars >>

\* A slip: the new line goes to the start of the log.
UpdateCmdPrepend ==
    /\ ~crashed
    /\ cmdq # << >>
    /\ LET m == Head(cmdq)
       IN  /\ cmdq' = Tail(cmdq)
           /\ IF m.type = "NewEvent"
              THEN IF ~is_paused /\ device # << >>
                   THEN /\ text_buf' = << [key |-> m.key, value |-> m.value] >>
                                           \o text_buf
                        /\ UNCHANGED missed
                   ELSE /\ UNCHANGED text_buf
                        /\ missed' = (missed \/ device # << >>)
              ELSE /\ UNCHANGED << text_buf, missed >>
    /\ UNCHANGED << device, is_paused, tasks, crashed, io >>
    /\ UNCHANGED << comboVars, resolverVars >>

\* A slip: an event is logged whether a device is active or not.
UpdateCmdAnyDevice ==
    /\ ~crashed
    /\ cmdq # << >>
    /\ LET m == Head(cmdq)
       IN  /\ cmdq' = Tail(cmdq)
           /\ IF m.type = "NewEvent" /\ ~is_paused
              THEN text_buf' = Append(text_buf,
                                      [key |-> m.key, value |-> m.value])
              ELSE UNCHANGED text_buf
    /\ UNCHANGED << device, is_paused, tasks, crashed, missed, io >>
    /\ UNCHANGED << comboVars, resolverVars >>

\* event_logger.rs:196 update_cmd, on the oldest message of the command channel.
\* An ErrorOccured is passed on as the component's output, which the window
\* shows as a toast (main.rs:377); no field of the component changes.
UpdateCmd ==
    /\ ~crashed
    /\ cmdq # << >>
    /\ LET m == Head(cmdq)
       IN  /\ cmdq' = Tail(cmdq)
           /\ IF m.type = "NewEvent"
              THEN IF ~is_paused /\ device # << >>
                   THEN /\ text_buf' = Append(text_buf,
                                              [key |-> m.key, value |-> m.value])
                        /\ UNCHANGED missed
                   ELSE /\ UNCHANGED text_buf
                        /\ missed' = (missed \/ device # << >>)
              ELSE /\ UNCHANGED << text_buf, missed >>
    /\ UNCHANGED << device, is_paused, tasks, crashed, io >>
    /\ UNCHANGED << comboVars, resolverVars >>

\* A slip: a failed open ends the worker without a message.
TaskOpenSilent(w, ok) ==
    /\ ~crashed
    /\ tasks[w].pc = "open"
    /\ tasks' = IF ok THEN [tasks EXCEPT ![w].pc = "check"]
                ELSE [tasks EXCEPT ![w] = Returned(@, @.late)]
    /\ UNCHANGED cmdq
    /\ UNCHANGED << device, text_buf, is_paused, crashed >>
    /\ UNCHANGED missed
    /\ UNCHANGED << comboVars, resolverVars >>

\* event_logger.rs:226 the worker opens the device: File::open and
\* Device::new_from_file, either of which may fail (259-263 send the error).
TaskOpen(w, ok) ==
    /\ ~crashed
    /\ tasks[w].pc = "open"
    /\ IF ok
       THEN /\ tasks' = [tasks EXCEPT ![w].pc = "check"]
            /\ UNCHANGED cmdq
       ELSE /\ tasks' = [tasks EXCEPT ![w] = Returned(@, @.late)]
            /\ cmdq' = Append(cmdq, [type |-> "ErrorOccured"])
    /\ UNCHANGED << device, text_buf, is_paused, crashed >>
    /\ UNCHANGED missed
    /\ UNCHANGED << comboVars, resolverVars >>

\* A slip: the Disconnected arm forgotten.
TaskCheckStopOnly(w) ==
    /\ ~crashed
    /\ tasks[w].pc = "check"
    /\ tasks' = IF tasks[w].stops > 0
                THEN [tasks EXCEPT ![w] = Returned(@, @.late)]
                ELSE [tasks EXCEPT ![w].pc = "read"]
    /\ UNCHANGED << device, text_buf, is_paused, cmdq, crashed >>
    /\ UNCHANGED << missed, io >>
    /\ UNCHANGED << comboVars, resolverVars >>

\* event_logger.rs:230 the top of the loop: bg_recv.try_recv()
TaskCheck(w) ==
    /\ ~crashed
    /\ tasks[w].pc = "check"
    /\ tasks' = IF tasks[w].stops > 0
                THEN [tasks EXCEPT ![w] = Returned(@, @.late)]
                ELSE IF ~tasks[w].sender
                     THEN [tasks EXCEPT ![w] = Returned(@, @.late)]
                     ELSE [tasks EXCEPT ![w].pc = "read"]
    /\ UNCHANGED << device, text_buf, is_paused, cmdq, crashed >>
    /\ UNCHANGED << missed, io >>
    /\ UNCHANGED << comboVars, resolverVars >>

\* A slip: an event of any type is forwarded.
TaskReadForwardAll(w, o) ==
    /\ ~crashed
    /\ tasks[w].pc = "read"
    /\ Len(text_buf) + Len(cmdq) < MaxEvents
    /\ LET late == tasks[w].late + (IF StopVisible(tasks[w]) THEN 1 ELSE 0)
       IN  CASE o.kind = "key" ->
                 /\ tasks' = [tasks EXCEPT ![w].pc = "check", ![w].late = late]
                 /\ cmdq' = Append(cmdq, [type |-> "NewEvent", key |-> o.ev.key,
                                          value |-> o.ev.value])
             [] o.kind = "other" ->
                 /\ tasks' = [tasks EXCEPT ![w].pc = "check", ![w].late = late]
                 /\ cmdq' = Append(cmdq, [type |-> "NewEvent", key |-> "KEY_A",
                                          value |-> 0])
             [] o.kind = "sync" ->
                 /\ tasks' = [tasks EXCEPT ![w] = Returned(@, late)]
                 /\ UNCHANGED cmdq
             [] o.kind = "err" ->
                 /\ tasks' = [tasks EXCEPT ![w] = Returned(@, late)]
                 /\ cmdq' = Append(cmdq, [type |-> "ErrorOccured"])
    /\ UNCHANGED << device, text_buf, is_paused, crashed >>
    /\ UNCHANGED missed
    /\ UNCHANGED << comboVars, resolverVars >>

\* event_logger.rs:235 the blocking next_event returns with outcome o. late
\* counts the reads that return after the stop condition became visible.
TaskRead(w, o) ==
    /\ ~crashed
    /\ tasks[w].pc = "read"
    /\ o.kind = "key" => Len(text_buf) + Len(cmdq) < MaxEvents
    /\ LET late == tasks[w].late + (IF StopVisible(tasks[w]) THEN 1 ELSE 0)
       IN  CASE o.kind = "key" ->
                 /\ tasks' = [tasks EXCEPT ![w].pc = "check", ![w].late = late]
                 /\ cmdq' = Append(cmdq, [type |-> "NewEvent", key |-> o.ev.key,
                                          value |-> o.ev.value])
             [] o.kind = "other" ->
                 /\ tasks' = [tasks EXCEPT ![w].pc = "check", ![w].late = late]
                 /\ UNCHANGED cmdq
             [] o.kind = "sync" ->
                 /\ tasks' = [tasks EXCEPT ![w] = Returned(@, late)]
                 /\ UNCHANGED cmdq
             [] o.kind = "err" ->
                 /\ tasks' = [tasks EXCEPT ![w] = Returned(@, late)]
                 /\ cmdq' = Append(cmdq, [type |-> "ErrorOccured"])
    /\ UNCHANGED << device, text_buf, is_paused, crashed >>
    /\ UNCHANGED missed
    /\ UNCHANGED << comboVars, resolverVars >>

NextLogger ==
    \/ Pause
    \/ Resume
    \/ ClearLog
    \/ \E dev \in Devices : SetDevice(dev)
    \/ ClearDevice
    \/ UpdateCmd
    \/ \E w \in DOMAIN tasks : \E ok \in BOOLEAN :
           TaskOpen(w, ok) /\ UNCHANGED io
    \/ \E w \in DOMAIN tasks : TaskCheck(w)
    \/ \E w \in DOMAIN tasks : \E o \in ReadOutcomes :
           TaskRead(w, o) /\ UNCHANGED io

\* A bound: the device calls whose outcome a trace records.
MaxIo == 3

\* The worker's open with its outcome recorded when it fails.
TracedOpen(w, ok) ==
    /\ TaskOpen(w, ok)
    /\ IF ok THEN UNCHANGED io
       ELSE /\ Len(io) < MaxIo
            /\ io' = Append(io, [w |-> w, call |-> "open",
                                 out |-> [kind |-> "err"]])

\* The worker's read with its outcome recorded.
TracedRead(w, o) ==
    /\ TaskRead(w, o)
    /\ Len(io) < MaxIo
    /\ io' = Append(io, [w |-> w, call |-> "next_event", out |-> o])

\* The workers with what their devices gave them on record; the command
\* channel is left to fill, so it holds what the workers sent. A device is
\* set when the workers replaced before have returned, so that the worker of
\* the active device runs beside at most one replaced worker.
NextCapture ==
    \/ /\ \A w \in DOMAIN tasks : w < Len(tasks) => ~Running(tasks[w])
       /\ \E dev \in Devices : SetDevice(dev)
    \/ ClearDevice
    \/ \E w \in DOMAIN tasks : \E ok \in BOOLEAN : TracedOpen(w, ok)
    \/ \E w \in DOMAIN tasks : TaskCheck(w)
    \/ \E w \in DOMAIN tasks : \E o \in ReadOutcomes : TracedRead(w, o)

\* A bound: the device calls on record when the command channel is handled.
MaxHandledIo == 2

\* The component with its workers traced: the messages of the command channel
\* are handled, so the log fills from what the workers read. A device is set
\* when the workers replaced before have returned, as in NextCapture.
NextOrigin ==
    \/ Pause
    \/ Resume
    \/ /\ \A w \in DOMAIN tasks : w < Len(tasks) => ~Running(tasks[w])
       /\ \E dev \in Devices : SetDevice(dev)
    \/ ClearDevice
    \/ UpdateCmd
    \/ \E w \in DOMAIN tasks : \E ok \in BOOLEAN :
           (ok \/ Len(io) < MaxHandledIo) /\ TracedOpen(w, ok)
    \/ \E w \in DOMAIN tasks : TaskCheck(w)
    \/ \E w \in DOMAIN tasks : \E o \in ReadOutcomes :
           Len(io) < MaxHandledIo /\ TracedRead(w, o)

\* ------------------------------------------------------------- DeviceInfo

\* A bound: the number of entries of /dev/input in a listing.
MaxEntries == 3

\* A string the code takes apart is a sequence of characters.
Chars(s) ==
    CASE s = "event"       -> << "e", "v", "e", "n", "t" >>
      [] s = "mouse"       -> << "m", "o", "u", "s", "e" >>
      [] s = "/dev/input/" -> << "/", "d", "e", "v", "/", "i", "n", "p", "u", "t", "/" >>

DigitChars == << "0", "1", "2", "3", "4", "5", "6", "7", "8", "9" >>

IsDigit(c) == \E i \in DOMAIN DigitChars : DigitChars[i] = c

DigitValue(c) == (CHOOSE i \in DOMAIN DigitChars : DigitChars[i] = c) - 1

Some(x) == << x >>

\* The entries /dev/input may hold: the file name, whether it is a directory,
\* and what opening and probing it gives (deviceinfo.rs:33 with_path).
Entry(file, is_dir, probe, name, phys, keys) ==
    [file |-> file, is_dir |-> is_dir, probe |-> probe, name |-> name,
     phys |-> phys, keys |-> keys]

DirEntries ==
    { Entry(Chars("event") \o << "3" >>, FALSE, "ok", "kbd", Some("usb-1"), TRUE),
      Entry(Chars("event") \o << "7" >>, FALSE, "ok", "kbd", << >>, TRUE),
      Entry(Chars("event") \o << "1", "0" >>, FALSE, "ok", "kbd", Some("usb-2"), TRUE),
      Entry(Chars("event") \o << "2" >>, FALSE, "ok", "pad", Some("usb-1"), FALSE),
      Entry(Chars("event") \o << "5" >>, FALSE, "open_err", "kbd", Some("usb-9"), TRUE),
      Entry(Chars("mouse") \o << "0" >>, FALSE, "ok", "pad", Some("usb-9"), FALSE),
      Entry(Chars("event") \o << "0", "3" >>, FALSE, "ok", "kbd", << >>, TRUE),
      Entry(Chars("event") \o << "X" >>, FALSE, "ok", "pad", << >>, TRUE),
      Entry(Chars("event") \o << "9" >>, TRUE, "ok", "pad", Some("usb-9"), FALSE),
      Entry(Chars("event") \o << "4" >>, FALSE, "evdev_err", "pad", Some("usb-9"),
            TRUE) }

\* The listings read_dir may yield: distinct entries in any order.
Listings ==
    { ls \in SeqsUpTo(DirEntries, MaxEntries) :
          \A i, j \in DOMAIN ls : i # j => ls[i].file # ls[j].file }

\* The names and phys strings with_name is asked for.
QueryNames == { "kbd", "pad", "tablet" }

QueryPhys == { << >>, Some("usb-1"), Some("usb-2"), Some("usb-9") }

\* String::cmp on the device names that occur, smallest first.
NameOrder == << "kbd", "pad", "tablet" >>

NameRank(n) == CHOOSE i \in DOMAIN NameOrder : NameOrder[i] = n

Ok(v) == [tag |-> "Ok", val |-> v, err |-> None, args |-> << >>]

Err(e, args) == [tag |-> "Err", val |-> << >>, err |-> e, args |-> args]

\* deviceinfo.rs:33 DeviceInfo::with_path
with_path(entry) ==
    CASE entry.probe = "open_err" ->
             Err("FileOpenError", << Chars("/dev/input/") \o entry.file >>)
      [] entry.probe = "evdev_err" -> Err("EvdevError", << >>)
      [] entry.probe = "ok" ->
             Ok([name |-> entry.name, phys |-> entry.phys,
                 path |-> Chars("/dev/input/") \o entry.file,
                 supports_remap |-> entry.keys])

\* str::starts_with
starts_with(s, pat) ==
    Len(s) >= Len(pat) /\ SubSeq(s, 1, Len(pat)) = pat

\* str::rfind: the last place pat starts at in s, counted from 1; 0 for None.
rfind(s, pat) ==
    LET at == { i \in 1..Len(s) :
                  i + Len(pat) - 1 <= Len(s)
                      /\ SubSeq(s, i, i + Len(pat) - 1) = pat }
    IN  IF at = {} THEN 0 ELSE CHOOSE i \in at : \A j \in at : j <= i

RECURSIVE DecimalValue(_, _)
DecimalValue(s, acc) ==
    IF s = << >> THEN acc
    ELSE DecimalValue(Tail(s), acc * 10 + DigitValue(Head(s)))

RECURSIVE StripZeros(_)
StripZeros(s) ==
    IF s # << >> /\ Head(s) = "0" THEN StripZeros(Tail(s)) ELSE s

\* u32::MAX, 2^32 - 1, in digits.
U32MaxDigits == << "4", "2", "9", "4", "9", "6", "7", "2", "9", "5" >>

\* Of two digit strings of one length, a is the larger number.
RECURSIVE DigitsGreater(_, _)
DigitsGreater(a, b) ==
    IF a = << >> THEN FALSE
    ELSE IF Head(a) = Head(b) THEN DigitsGreater(Tail(a), Tail(b))
    ELSE DigitValue(Head(a)) > DigitValue(Head(b))

\* The digits s spell a number above u32::MAX.
OverflowsU32(s) ==
    LET d == StripZeros(s)
    IN  \/ Len(d) > Len(U32MaxDigits)
        \/ Len(d) = Len(U32MaxDigits) /\ DigitsGreater(d, U32MaxDigits)

\* str::parse::<u32>: an optional plus sign, then digits, at most u32::MAX.
parse_u32(s) ==
    LET d == IF s # << >> /\ Head(s) = "+" THEN Tail(s) ELSE s
    IN  IF d = << >> \/ \E i \in DOMAIN d : ~IsDigit(d[i]) THEN << >>
        ELSE IF OverflowsU32(d) THEN << >>
        ELSE Some(DecimalValue(d, 0))

\* deviceinfo.rs:128 event_number_from_path
event_number_from_path(path) ==
    LET idx == rfind(path, Chars("event"))
    IN  IF idx = 0 THEN 0
        ELSE LET n == parse_u32(SubSeq(path, idx + 5, Len(path)))
             IN  IF n = << >> THEN 0 ELSE n[1]

\* A comparison that looks at the names only.
NotAfterByName(a, b) ==
    NameRank(a.name) <= NameRank(b.name)

\* deviceinfo.rs:118 the comparison sort_by gets: a before-or-equal b.
NotAfter(a, b) ==
    \/ NameRank(a.name) < NameRank(b.name)
    \/ /\ a.name = b.name
       /\ event_number_from_path(a.path) <= event_number_from_path(b.path)

\* slice::sort_by is stable: an item goes after the items not after it.
RECURSIVE InsertSorted(_, _)
InsertSorted(sorted, d) ==
    IF sorted = << >> THEN << d >>
    ELSE IF NotAfter(Head(sorted), d)
         THEN << Head(sorted) >> \o InsertSorted(Tail(sorted), d)
         ELSE << d >> \o sorted

RECURSIVE sort_by(_)
sort_by(devs) ==
    IF devs = << >> THEN << >>
    ELSE InsertSorted(sort_by(SubSeq(devs, 1, Len(devs) - 1)), devs[Len(devs)])

\* A test that also wants a number after the prefix.
is_candidate_numbered(entry) ==
    /\ starts_with(entry.file, Chars("event"))
    /\ parse_u32(SubSeq(entry.file, 6, Len(entry.file))) # << >>
    /\ ~entry.is_dir

\* deviceinfo.rs:97-108 the entries the loop does not skip: the file name
\* starts with "event" and the path is not a directory.
is_candidate(entry) ==
    /\ starts_with(entry.file, Chars("event"))
    /\ ~entry.is_dir

\* A loop that ends at the first candidate that fails to open.
RECURSIVE collect_or_stop(_)
collect_or_stop(ls) ==
    IF ls = << >> THEN << >>
    ELSE LET entry == Head(ls)
         IN  IF ~is_candidate(entry) THEN collect_or_stop(Tail(ls))
             ELSE LET r == with_path(entry)
                  IN  IF r.tag = "Ok" THEN << r.val >> \o collect_or_stop(Tail(ls))
                      ELSE << >>

\* deviceinfo.rs:94-114 the loop over the entries: candidates are opened and
\* probed, a failing one is logged and left out.
RECURSIVE collect(_)
collect(ls) ==
    IF ls = << >> THEN << >>
    ELSE LET entry == Head(ls)
         IN  IF ~is_candidate(entry) THEN collect(Tail(ls))
             ELSE LET r == with_path(entry)
                  IN  IF r.tag = "Ok" THEN << r.val >> \o collect(Tail(ls))
                      ELSE collect(Tail(ls))

\* deviceinfo.rs:92 DeviceInfo::obtain_device_list; readable is whether
\* read_dir and each entry of it could be read.
obtain_device_list(ls, readable) ==
    IF ~readable THEN Err("IoError", << >>)
    ELSE Ok(sort_by(collect(ls)))

\* Iterator::position: the first place of an item that is among matching; 0
\* for None.
position(devs, matching) ==
    LET at == { i \in DOMAIN devs : devs[i] \in matching }
    IN  IF at = {} THEN 0 ELSE CHOOSE i \in at : \A j \in at : i <= j

\* A slip: a phys that matches nothing falls back to the name.
with_name_fallback(ls, readable, name, phys) ==
    LET r == obtain_device_list(ls, readable)
    IN  IF r.tag = "Err" THEN r
        ELSE LET devices == r.val
                 SamePhys(item) == phys # << >> /\ item.phys = phys
                 idx == position(devices,
                                 { d \in Range(devices) : SamePhys(d) })
                 SameName(item) == item.name = name
                 devices_with_name == SelectSeq(devices, SameName)
             IN  IF idx # 0 THEN Ok(devices[idx])
                 ELSE IF devices_with_name = << >>
                      THEN Err("DeviceNotFoundByName", << name >>)
                      ELSE Ok(devices_with_name[1])

\* A slip: of several devices with the name, the last is taken.
with_name_last(ls, readable, name, phys) ==
    LET r == obtain_device_list(ls, readable)
    IN  IF r.tag = "Err" THEN r
        ELSE LET devices == r.val
                 SamePhys(item) == item.phys # << >> /\ item.phys[1] = phys[1]
                 SameName(item) == item.name = name
                 devices_with_name == SelectSeq(devices, SameName)
             IN  IF phys # << >>
                 THEN LET idx == position(devices,
                                          { d \in Range(devices) : SamePhys(d) })
                      IN  IF idx # 0 THEN Ok(devices[idx])
                          ELSE Err("DeviceNotFound", << name, phys[1] >>)
                 ELSE IF devices_with_name = << >>
                      THEN Err("DeviceNotFoundByName", << name >>)
                      ELSE Ok(devices_with_name[Len(devices_with_name)])

\* A slip: with a phys, the device must have the name asked for as well.
with_name_and_phys(ls, readable, name, phys) ==
    LET r == obtain_device_list(ls, readable)
    IN  IF r.tag = "Err" THEN r
        ELSE LET devices == r.val
                 SameBoth(item) == /\ item.phys # << >>
                                   /\ item.phys[1] = phys[1]
                                   /\ item.name = name
                 SameName(item) == item.name = name
                 devices_with_name == SelectSeq(devices, SameName)
             IN  IF phys # << >>
                 THEN LET idx == position(devices,
                                          { d \in Range(devices) : SameBoth(d) })
                      IN  IF idx # 0 THEN Ok(devices[idx])
                          ELSE Err("DeviceNotFound", << name, phys[1] >>)
                 ELSE IF devices_with_name = << >>
                      THEN Err("DeviceNotFoundByName", << name >>)
                      ELSE Ok(devices_with_name[1])

\* deviceinfo.rs:46 DeviceInfo::with_name
with_name(ls, readable, name, phys) ==
    LET r == obtain_device_list(ls, readable)
    IN  IF r.tag = "Err" THEN r
        ELSE LET devices == r.val
                 SamePhys(item) == item.phys # << >> /\ item.phys[1] = phys[1]
                 SameName(item) == item.name = name
                 devices_with_name == SelectSeq(devices, SameName)
             IN  IF phys # << >>
                 THEN LET idx == position(devices,
                                          { d \in Range(devices) : SamePhys(d) })
                      IN  IF idx # 0 THEN Ok(devices[idx])
                          ELSE Err("DeviceNotFound", << name, phys[1] >>)
                 ELSE IF devices_with_name = << >>
                      THEN Err("DeviceNotFoundByName", << name >>)
                      ELSE Ok(devices_with_name[1])

\* main.rs:405 the window as AppModel::init builds it: no device list was
\* obtained, the browser and the two entries of the editor are empty.
InitEditor ==
    /\ answer = << >>
    /\ listed = << >>
    /\ device_browser = << >>
    /\ cfg_name = ""
    /\ cfg_phys = ""
    /\ picked = << >>
    /\ opened = {}

\* No device list was looked at.
InitNoLookup ==
    /\ listing = << >>
    /\ InitEditor

\* /dev/input as a listing finds it.
InitListing ==
    /\ listing \in Listings
    /\ InitEditor

\* A call of DeviceInfo::with_name(name, phys) on the directory as it is.
WithName(name, phys, readable) ==
    /\ answer' = Some([name |-> name, phys |-> phys,
                       ret |-> with_name(listing, readable, name, phys)])
    /\ UNCHANGED << listing, listed, device_browser, cfg_name, cfg_phys, picked,
                    opened >>
    /\ UNCHANGED << comboVars, loggerVars >>

NextResolver ==
    \E name \in QueryNames : \E phys \in QueryPhys : \E readable \in BOOLEAN :
        WithName(name, phys, readable)

\* main.rs:462 AppMsg::RefreshDevices and main.rs:491 the CommandMsg with the
\* result of obtain_device_list: a list replaces what the browser shows, an
\* error is reported and the browser is left as it was.
RefreshDevices(readable) ==
    LET r == obtain_device_list(listing, readable)
    IN  /\ listed' = Some(r)
        /\ device_browser' = IF r.tag = "Ok" THEN r.val ELSE device_browser
        /\ opened' = IF readable
                      THEN { e.file : e \in { x \in Range(listing) : is_candidate(x) } }
                      ELSE {}
        /\ UNCHANGED << listing, answer, cfg_name, cfg_phys, picked >>
        /\ UNCHANGED << comboVars, loggerVars >>

\* main.rs:456 AppMsg::SetDevice(dev), for the device at place i of the browser
\* (device_browser.rs:83).
AppSetDevice(i) ==
    LET dev == device_browser[i]
    IN  /\ cfg_name' = dev.name
        /\ cfg_phys' = IF dev.phys # << >> THEN dev.phys[1] ELSE cfg_phys
        /\ picked' = Some(dev)
        /\ UNCHANGED << listing, answer, listed, device_browser, opened >>
        /\ UNCHANGED << comboVars, loggerVars >>

NextBrowser ==
    \/ \E readable \in BOOLEAN : RefreshDevices(readable)
    \/ \E i \in DOMAIN device_browser : AppSetDevice(i)

\* key_combo.rs:114 a combination constructed empty (KeyCombination::default).
InitCombo ==
    /\ combo = EmptyCombination
    /\ last = [op |-> "default", arg |-> None, ret |-> None]
    /\ src = << >>
    /\ held = {}
    /\ stamp = NoStamp

\* key_seq.rs:129 a combination constructed from a key sequence (init.into()).
InitBuilt ==
    \E v \in SeqsUpTo(BuiltKeys, MaxLen) :
        /\ combo = from_iter(v)
        /\ last = [op |-> "from_iter", arg |-> None, ret |-> None]
        /\ src = v
        /\ held = Range(v)
        /\ stamp = StampOfSeq(NoStamp, {}, v, 1)

\* key_seq.rs:141 KeySeqInputMsg::AddKey(k): self.sequence.push(k)
Push(key) ==
    /\ combo' = push(combo, key)
    /\ last' = [op |-> "push", arg |-> key, ret |-> None]
    /\ src' = << >>
    /\ held' = held \cup {key}
    /\ stamp' = StampAfterPush(stamp, held, key)
    /\ UNCHANGED << loggerVars, resolverVars >>

\* key_combo.rs:134 a call of KeyCombination::pop
Pop ==
    LET r == pop(combo)
    IN  /\ combo' = r.c
        /\ last' = [op |-> "pop", arg |-> None, ret |-> r.ret]
        /\ src' = << >>
        /\ held' = held \ {r.ret}
        /\ stamp' = IF r.ret \in OrdinaryKeys THEN [stamp EXCEPT ![r.ret] = 0]
                    ELSE stamp
        /\ UNCHANGED << loggerVars, resolverVars >>

\* key_seq.rs:144 KeySeqInputMsg::ClearKeys: self.sequence.clear()
Clear ==
    /\ combo' = clear(combo)
    /\ last' = [op |-> "clear", arg |-> None, ret |-> None]
    /\ src' = << >>
    /\ held' = {}
    /\ stamp' = NoStamp
    /\ UNCHANGED << loggerVars, resolverVars >>

NextCombo ==
    \/ \E key \in KeyCodes : Push(key)
    \/ Pop
    \/ Clear

\* A combination that starts empty and is changed by push, pop and clear.
InitEmptyEditor == InitCombo /\ InitLogger /\ InitNoLookup

SpecCombo == InitEmptyEditor /\ [][NextCombo]_vars

NextBuilt ==
    \/ \E key \in BuiltKeys : Push(key)
    \/ Pop
    \/ Clear

\* A combination constructed from a key sequence, then changed by push, pop and clear.
InitLoadedEditor == InitBuilt /\ InitLogger /\ InitNoLookup

SpecBuilt == InitLoadedEditor /\ [][NextBuilt]_vars

\* The event logger component with its workers; no key sequence is edited.
InitLaunched == InitLogger /\ InitCombo /\ InitNoLookup

SpecLogger == InitLaunched /\ [][NextLogger]_vars

\* The workers traced, from the launch of the component.
InitTraced == InitLogger /\ InitCombo /\ InitNoLookup

SpecCapture == InitTraced /\ [][NextCapture]_vars

\* The component and its traced workers, with the command channel handled.
InitOrigin == InitLogger /\ InitCombo /\ InitNoLookup

SpecOrigin == InitOrigin /\ [][NextOrigin]_vars

\* The device list looked up by name and phys; nothing else runs.
InitDiscovered == InitListing /\ InitCombo /\ InitLogger

SpecResolver == InitDiscovered /\ [][NextResolver]_vars

\* The device browser refreshed and devices picked from it for the editor.
InitBrowser == InitListing /\ InitCombo /\ InitLogger

SpecBrowser == InitBrowser /\ [][NextBrowser]_vars

\* ----------------------------------------------- claims: key combinations

\* The fixed declared order of the modifiers, as the specification states it.
DeclaredOrder ==
    << "KEY_FN", "KEY_LEFTALT", "KEY_RIGHTALT", "KEY_LEFTMETA", "KEY_RIGHTMETA",
       "KEY_LEFTCTRL", "KEY_RIGHTCTRL", "KEY_LEFTSHIFT", "KEY_RIGHTSHIFT" >>

DeclaredModifiers == Range(DeclaredOrder)

\* The place of a modifier in the declared order.
DeclaredIndex(k) == CHOOSE i \in DOMAIN DeclaredOrder : DeclaredOrder[i] = k

\* The held modifiers, in the declared order.
HeldModifiers(h) == SelectSeq(DeclaredOrder, LAMBDA k : k \in h)

\* C1: from an empty combination, after any pushes, pops and clears, iter() and
\* to_keys() yield the held modifiers in the declared order, then the held
\* non-modifier keys in the order of their insertion.
C1_FlattenCanonical ==
    LET f == to_keys(combo)
        m == HeldModifiers(held)
    IN  /\ iter(combo) = f
        /\ Len(f) = Cardinality(held)
        /\ SubSeq(f, 1, Len(m)) = m
        /\ \A i \in (Len(m) + 1)..Len(f) : f[i] \in held \ DeclaredModifiers
        /\ \A i, j \in (Len(m) + 1)..Len(f) : i < j => stamp[f[i]] < stamp[f[j]]

\* C1's case: LEFTSHIFT, A and LEFTCTRL were pushed, LEFTCTRL last.
C1_Witness ==
    /\ last = [op |-> "push", arg |-> "KEY_LEFTCTRL", ret |-> None]
    /\ held = { "KEY_LEFTSHIFT", "KEY_A", "KEY_LEFTCTRL" }
    /\ to_keys(combo) = << "KEY_LEFTCTRL", "KEY_LEFTSHIFT", "KEY_A" >>

RECURSIVE PushAll(_, _, _)
PushAll(c, v, i) == IF i > Len(v) THEN c ELSE PushAll(push(c, v[i]), v, i + 1)

\* C2: a combination constructed from a key sequence equals the empty
\* combination with each key of the sequence pushed in order.
C2_FromIterIsPushes ==
    last.op = "from_iter" => combo = PushAll(EmptyCombination, src, 1)

\* C3: a push of a key that is present leaves the combination unchanged, a push
\* of an absent non-modifier key appends it after the keys already there, and
\* the flattened sequence then holds each held key exactly once (it has the
\* held keys as its elements, and as many elements as keys are held).
C3_PushOnce ==
    [][ last'.op = "push" =>
          LET k == last'.arg
              f == to_keys(combo)
              g == to_keys(combo')
          IN  /\ k \in Range(f) => combo' = combo
              /\ (k \notin Range(f) /\ k \notin DeclaredModifiers) => g = Append(f, k)
              /\ Range(g) = held' /\ Len(g) = Cardinality(held') ]_vars

\* C3's case: A was pushed again while A and B were present.
C3_Witness ==
    /\ last = [op |-> "push", arg |-> "KEY_A", ret |-> None]
    /\ combo.keys = << "KEY_A", "KEY_B" >>

\* C4: pushing two modifiers in either order onto a reachable combination gives
\* equal combinations with the same iter() sequence, and pushing a modifier
\* twice gives what pushing it once gives.
C4_ModifierPushCommutes ==
    \A a, b \in DeclaredModifiers :
        LET ab == push(push(combo, a), b)
            ba == push(push(combo, b), a)
        IN  /\ ab = ba
            /\ iter(ab) = iter(ba)
            /\ push(push(combo, a), a) = push(combo, a)

\* C4's case: FN was pushed onto a combination that held RIGHTSHIFT.
C4_Witness ==
    /\ last = [op |-> "push", arg |-> "KEY_FN", ret |-> None]
    /\ "KEY_RIGHTSHIFT" \in held
    /\ iter(combo) = << "KEY_FN", "KEY_RIGHTSHIFT" >>

\* C5: with a non-modifier key present, pop() removes and returns the last of
\* them, the most recently inserted one still held, never a modifier, and
\* leaves the modifiers alone.
C5_PopOrdinaryFirst ==
    [][ (last'.op = "pop" /\ combo.keys # << >>) =>
          /\ last'.ret = combo.keys[Len(combo.keys)]
          /\ last'.ret \notin DeclaredModifiers
          /\ stamp[last'.ret] = MaxStamp(stamp)
          /\ combo'.keys = SubSeq(combo.keys, 1, Len(combo.keys) - 1)
          /\ combo'.modifiers = combo.modifiers
          /\ into_iter(combo'.modifiers) = HeldModifiers(held) ]_vars

\* C5's case: pop() on [LEFTCTRL, LEFTSHIFT, A] returned A.
C5_Witness ==
    /\ last = [op |-> "pop", arg |-> None, ret |-> "KEY_A"]
    /\ to_keys(combo) = << "KEY_LEFTCTRL", "KEY_LEFTSHIFT" >>

\* C6: with no non-modifier key present, pop() removes and returns the held
\* modifier that is latest in the declared order; with no modifier held it
\* returns nothing and leaves the combination unchanged.
C6_PopModifierLatest ==
    [][ (last'.op = "pop" /\ combo.keys = << >>) =>
          LET m == HeldModifiers(held)
          IN  IF m = << >>
              THEN last'.ret = None /\ combo' = combo
              ELSE /\ last'.ret = m[Len(m)]
                   /\ \A k \in Range(m) : DeclaredIndex(k) <= DeclaredIndex(last'.ret)
                   /\ to_keys(combo') = SubSeq(m, 1, Len(m) - 1) ]_vars

\* C6's case: pop() on [LEFTCTRL, LEFTSHIFT] returned LEFTSHIFT.
C6_Witness ==
    /\ last = [op |-> "pop", arg |-> None, ret |-> "KEY_LEFTSHIFT"]
    /\ to_keys(combo) = << "KEY_LEFTCTRL" >>

\* C7: the combination constructed from to_keys(c) equals c, and flattening the
\* combination constructed from a key sequence, constructing again and
\* flattening again gives the same flattened sequence.
C7_FlattenConstructInverse ==
    /\ from_iter(to_keys(combo)) = combo
    /\ LET c == from_iter(src)
       IN  to_keys(from_iter(to_keys(c))) = to_keys(c)

\* C7's case: a sequence that flattening reorders was loaded.
C7_Witness ==
    /\ last.op = "from_iter"
    /\ src = << "KEY_A", "KEY_LEFTSHIFT", "KEY_A" >>
    /\ to_keys(combo) = << "KEY_LEFTSHIFT", "KEY_A", "KEY_A" >>

\* ------------------------------------------------- claims: event logger

\* C8 as stated: when a later worker has been started, no earlier worker is
\* still reading its device and able to forward events, so at most one worker
\* is capturing.
C8_AtMostOneCapturing ==
    \A w \in DOMAIN tasks : w < Len(tasks) => tasks[w].pc # "read"

\* C8 as amended: at most one worker is running with no stop condition visible
\* to it, the worker of the active device; every worker started by an earlier
\* set_device has returned or has a stop condition visible, though it may
\* still be blocked in a read.
C8_AtMostOneUnstopped ==
    \A w \in DOMAIN tasks :
        /\ (Running(tasks[w]) /\ ~StopVisible(tasks[w]))
               => (device # << >> /\ device[1].chan = w /\ w = Len(tasks))
        /\ w < Len(tasks) => (~Running(tasks[w]) \/ StopVisible(tasks[w]))

\* C8's case: a second worker captures while the first, replaced by
\* set_device, is still blocked in its read.
C8_Witness ==
    /\ Len(tasks) = 2
    /\ tasks[1].pc = "read" /\ StopVisible(tasks[1])
    /\ tasks[2].pc = "read" /\ ~StopVisible(tasks[2])

\* C9: a worker sees a stop condition only at the top of its loop: with one
\* visible there it returns without a new read; a stop request leaves a worker
\* that is blocked in a read blocked; a read is issued only from the top of
\* the loop with no stop condition visible; a stop condition stays visible;
\* so at most one read returns after the stop condition became visible.
C9_StopSeenAtLoopTop ==
    [][ \A w \in DOMAIN tasks :
          /\ (tasks[w].pc = "check" /\ StopVisible(tasks[w])
                  /\ tasks'[w].pc # "check") => tasks'[w].pc = "done"
          /\ (tasks[w].pc # "read" /\ tasks'[w].pc = "read")
                 => (tasks[w].pc = "check" /\ ~StopVisible(tasks[w]))
          /\ (tasks[w].pc = "read" /\ ~StopVisible(tasks[w])
                  /\ StopVisible(tasks'[w])) => tasks'[w].pc = "read"
          /\ (StopVisible(tasks[w]) /\ Running(tasks'[w]))
                 => StopVisible(tasks'[w])
          /\ tasks'[w].late <= 1 ]_vars

\* C9's case: a replaced worker's read returned a key event after the stop
\* condition became visible, and the worker returned at its next loop check.
C9_Witness ==
    /\ Len(tasks) = 2
    /\ tasks[1].late = 1 /\ tasks[1].pc = "done"
    /\ tasks[2].pc = "open"
    /\ Len(cmdq) = 1 /\ cmdq[1].type = "NewEvent"

\* C10: a set_device step leaves every worker started before it returned or
\* with a stop condition visible and otherwise where it was, empties the log,
\* sets is_paused, records the device and starts one worker for that device.
C10_SetDeviceEffect ==
    [][ Len(tasks') > Len(tasks) =>
          LET n == Len(tasks')
          IN  /\ n = Len(tasks) + 1
              /\ \A w \in DOMAIN tasks :
                    /\ ~Running(tasks'[w]) \/ StopVisible(tasks'[w])
                    /\ tasks'[w].pc = tasks[w].pc
                    /\ tasks'[w].dev = tasks[w].dev
              /\ text_buf' = << >>
              /\ is_paused' = TRUE
              /\ \E dev \in Devices :
                    /\ device' = << [device |-> dev, chan |-> n] >>
                    /\ tasks'[n].dev = dev
              /\ tasks'[n].pc = "open"
              /\ ~StopVisible(tasks'[n]) ]_vars

\* C10's case: set_device for event7 while the worker of event3 was blocked
\* in a read.
C10_Witness ==
    /\ Len(tasks) = 2
    /\ tasks[1].pc = "read" /\ tasks[1].dev = "event3" /\ StopVisible(tasks[1])
    /\ tasks[2].pc = "open" /\ tasks[2].dev = "event7"
    /\ device = << [device |-> "event7", chan |-> 2] >>
    /\ text_buf = << >> /\ is_paused

\* ------------------------------------------ claims: event logger, part two

\* C11: no sequence of Pause, Resume, Clear, SetDevice and ClearDevice,
\* interleaved with the messages of the workers, makes the component panic;
\* ClearDevice completes also when the worker of the active device has
\* returned by itself and dropped the receiver of its stop channel.
C11_CoordinatorNeverCrashes == ~crashed

\* C12: when an ErrorOccured message has been handled, no device is active.
C12_ErrorDeactivatesDevice ==
    [][ (cmdq # << >> /\ Head(cmdq).type = "ErrorOccured" /\ cmdq' = Tail(cmdq))
            => device' = << >> ]_vars

\* A NewEvent message is handled by this step: update_cmd takes it off the
\* command channel.
HandlesNewEvent ==
    cmdq # << >> /\ Head(cmdq).type = "NewEvent" /\ cmdq' = Tail(cmdq)

\* C13 as stated: when capture runs unpaused on an active device, the log
\* shows every event handled since the device was set (or the log was last
\* emptied), the events handled while paused among them.
C13_ResumeRevealsAll == (device # << >> /\ ~is_paused) => ~missed

\* C13 as amended: an event read while paused is still consumed, taken off
\* the command channel, but it is discarded: the log stays as it was; a
\* Resume leaves the log as it was; so after a Resume the log shows only the
\* events handled while not paused.
C13_PausedEventsDiscarded ==
    [][ /\ (HandlesNewEvent /\ is_paused)
               => (text_buf' = text_buf /\ (device # << >> => missed'))
        /\ (is_paused /\ ~is_paused') => (text_buf' = text_buf /\ missed' = missed)
        /\ (HandlesNewEvent /\ ~is_paused /\ device # << >>)
               => Len(text_buf') = Len(text_buf) + 1 ]_vars

\* C13's case: an event was handled while paused, capture was resumed, and
\* the log does not show the event.
C13_Witness ==
    /\ device # << >> /\ ~is_paused
    /\ missed /\ text_buf = << >> /\ cmdq = << >>

\* C14: Pause and Resume change the pause flag and nothing else: the active
\* device, the log, the workers and the command channel stay as they were;
\* and a worker blocked in a read while the component is paused can return
\* from it with a key event and forward it.
C14_PauseResumeOnlyFlag ==
    /\ [][ /\ Pause => (is_paused' /\ UNCHANGED << device, text_buf, tasks,
                                                  cmdq, crashed >>)
           /\ Resume => (~is_paused' /\ UNCHANGED << device, text_buf, tasks,
                                                    cmdq, crashed >>)
           /\ (is_paused /\ ~is_paused')
                  => UNCHANGED << device, text_buf, tasks, cmdq, crashed >> ]_vars
    /\ [](\A w \in DOMAIN tasks : \A e \in KeyEvents :
            (is_paused /\ ~crashed /\ tasks[w].pc = "read"
                 /\ Len(text_buf) + Len(cmdq) < MaxEvents)
                => ENABLED TaskRead(w, [kind |-> "key", ev |-> e]))

\* C14's case: capture was resumed and one event logged, then paused, and the
\* worker went on: it forwarded an event that was handled while paused, and
\* is blocked in its next read.
C14_Witness ==
    /\ is_paused /\ Len(text_buf) = 1 /\ missed
    /\ device # << >>
    /\ tasks[device[1].chan].pc = "read" /\ ~StopVisible(tasks[device[1].chan])

\* C15: a NewEvent message adds one line for its key and value at the end of
\* the log if the component is not paused and a device is active, and else
\* leaves the log as it was; the log changes in no other way than by being
\* emptied, so its lines are handled events in the order of their arrival.
C15_AppendInOrder ==
    [][ /\ HandlesNewEvent =>
               text_buf' = IF ~is_paused /\ device # << >>
                           THEN Append(text_buf, [key |-> Head(cmdq).key,
                                                  value |-> Head(cmdq).value])
                           ELSE text_buf
        /\ text_buf' # text_buf => (text_buf' = << >> \/ HandlesNewEvent) ]_vars

\* C15's case: the press and the release of a key were handled while not
\* paused and are the two lines of the log, in that order.
C15_Witness ==
    /\ ~is_paused /\ device # << >>
    /\ text_buf = << [key |-> "KEY_A", value |-> 1],
                     [key |-> "KEY_A", value |-> 0] >>

\* The key events the recorded reads returned, in the order of the reads.
KeyReads ==
    LET IsKey(r) == r.call = "next_event" /\ r.out.kind = "key"
    IN  SelectSeq(io, IsKey)

\* The NewEvent messages in the command channel, oldest first.
Forwarded ==
    LET IsNewEvent(m) == m.type = "NewEvent"
    IN  SelectSeq(cmdq, IsNewEvent)

\* The recorded device calls that failed.
Failures ==
    LET Failed(r) == r.out.kind = "err"
    IN  SelectSeq(io, Failed)

\* The ErrorOccured messages in the command channel.
Errors ==
    LET IsError(m) == m.type = "ErrorOccured"
    IN  SelectSeq(cmdq, IsError)

\* C16: the NewEvent messages the workers sent are the key events their reads
\* returned, one message for each with its key code and value, in the order
\* of the reads; a read that returns an event of another type sends nothing.
C16_ForwardsKeyEventsInOrder ==
    /\ Len(Forwarded) = Len(KeyReads)
    /\ \A i \in DOMAIN Forwarded :
          /\ Forwarded[i].key = KeyReads[i].out.ev.key
          /\ Forwarded[i].value = KeyReads[i].out.ev.value

\* C16's case: a worker read an event of another type, then the press and
\* the release of a key, and sent the two key events.
C16_Witness ==
    /\ Len(io) = 3 /\ io[1].out.kind = "other"
    /\ \A i \in DOMAIN io : io[i].w = 1
    /\ Len(Forwarded) = 2
    /\ Forwarded[1].value = 1 /\ Forwarded[2].value = 0

\* C17: each failed open or read ends its worker and sends one ErrorOccured:
\* there are as many ErrorOccured messages as failures, a worker has at most
\* one failure, its last device call, and has returned after it; a worker
\* that ends on a stop request, a disconnected channel or Sync sends none.
C17_OneErrorPerFailure ==
    /\ Len(Errors) = Len(Failures)
    /\ \A i \in DOMAIN io :
          io[i].out.kind = "err" =>
              /\ ~Running(tasks[io[i].w])
              /\ \A j \in DOMAIN io : (j > i) => io[j].w # io[i].w

\* C17's case: the first worker's open failed and it sent the one error; the
\* second worker was stopped by clear_device during a read, read an event of
\* another type and returned at its loop check without an error.
C17_Witness ==
    /\ Len(tasks) = 2
    /\ ~Running(tasks[1]) /\ ~Running(tasks[2])
    /\ Len(io) = 2 /\ io[1].w = 1 /\ io[1].out.kind = "err"
    /\ io[2].w = 2 /\ io[2].out.kind = "other"
    /\ tasks[2].late = 1
    /\ Len(Errors) = 1 /\ Len(cmdq) = 1

\* C18 as stated: clear_device always completes; with an active device it
\* sends one stop request to the worker of that device, empties the log and
\* leaves no device active; with no active device it empties the log and
\* changes nothing else.
C18_ClearDeviceOnlyEmpties ==
    [][ ClearDevice =>
          /\ text_buf' = << >>
          /\ device' = << >>
          /\ ~crashed'
          /\ IF device = << >>
             THEN UNCHANGED << is_paused, tasks, cmdq >>
             ELSE tasks'[device[1].chan].stops
                      = tasks[device[1].chan].stops + 1 ]_vars

\* C18 as amended: clear_device empties the log, sets the pause flag and
\* leaves no device active, and leaves the command channel alone; with no
\* active device it changes nothing else; with an active device whose worker
\* is running it queues one stop request for that worker and touches no
\* other worker; with an active device whose worker has returned nothing is
\* sent and the component panics.
C18_ClearDeviceEffect ==
    [][ ClearDevice =>
          /\ text_buf' = << >>
          /\ is_paused'
          /\ device' = << >>
          /\ cmdq' = cmdq
          /\ IF device = << >>
             THEN UNCHANGED << tasks, crashed >>
             ELSE LET w == device[1].chan
                  IN  /\ \A v \in DOMAIN tasks : v # w => tasks'[v] = tasks[v]
                      /\ tasks'[w].pc = tasks[w].pc
                      /\ IF Running(tasks[w])
                         THEN /\ tasks'[w].stops = tasks[w].stops + 1
                              /\ StopVisible(tasks'[w])
                              /\ ~crashed'
                         ELSE /\ tasks'[w].stops = tasks[w].stops
                              /\ crashed' ]_vars

\* C18's case: clear_device while the worker of the active device was
\* blocked in a read with a line in the log: the stop request is queued, the
\* log is empty and no device is active.
C18_Witness ==
    /\ device = << >> /\ text_buf = << >> /\ is_paused /\ ~crashed
    /\ Len(tasks) = 1
    /\ tasks[1].pc = "read" /\ tasks[1].stops = 1

\* C19: Clear empties the log and sets the pause flag, and leaves the active
\* device, the workers with their stop channels, and the command channel as
\* they were.
C19_ClearLogLeavesWorker ==
    [][ ClearLog =>
          /\ text_buf' = << >>
          /\ is_paused'
          /\ UNCHANGED << device, tasks, cmdq, crashed >> ]_vars

\* C19's case: the log was emptied while an event was waiting in the command
\* channel: the device is still active and its worker still blocked in a
\* read with no stop condition visible.
C19_Witness ==
    /\ text_buf = << >> /\ is_paused /\ ~missed
    /\ device # << >>
    /\ tasks[device[1].chan].pc = "read"
    /\ ~StopVisible(tasks[device[1].chan])
    /\ Len(cmdq) = 1 /\ cmdq[1].type = "NewEvent"

\* ------------------------------------------------ claims: device resolver

\* The devices a discovery of the listing finds.
Discovered == obtain_device_list(listing, TRUE).val

\* C20: a call of with_name with a phys, for which the device list was
\* obtained and holds no device with exactly that phys, returns DeviceNotFound
\* for the name and phys asked for, whatever devices have the name asked for.
C20_NoFallbackToName ==
    (/\ answer # << >>
     /\ answer[1].phys # << >>
     /\ answer[1].ret.err # "IoError"
     /\ \A i \in DOMAIN Discovered : Discovered[i].phys # answer[1].phys)
        => answer[1].ret
               = Err("DeviceNotFound", << answer[1].name, answer[1].phys[1] >>)

\* C20's case: kbd is asked for with phys usb-2 when a kbd with phys usb-1
\* and a kbd with no phys are discovered, and the answer is DeviceNotFound.
C20_Witness ==
    /\ answer # << >>
    /\ answer[1].name = "kbd" /\ answer[1].phys = Some("usb-2")
    /\ \E i, j \in DOMAIN Discovered :
          /\ Discovered[i].name = "kbd" /\ Discovered[i].phys = Some("usb-1")
          /\ Discovered[j].name = "kbd" /\ Discovered[j].phys = << >>
    /\ \A i \in DOMAIN Discovered : Discovered[i].phys # Some("usb-2")
    /\ answer[1].ret.err = "DeviceNotFound"

\* The least of a non-empty set of places.
First(places) == CHOOSE i \in places : \A j \in places : i <= j

\* C21: a call of with_name with no phys, for which the device list was
\* obtained, returns the first discovered device whose name is the name asked
\* for, also when several have it, and returns DeviceNotFoundByName exactly
\* when no discovered device has the name.
C21_FirstByName ==
    (answer # << >> /\ answer[1].phys = << >> /\ answer[1].ret.err # "IoError")
        => LET named == { i \in DOMAIN Discovered :
                            Discovered[i].name = answer[1].name }
           IN  IF named = {}
               THEN answer[1].ret
                        = Err("DeviceNotFoundByName", << answer[1].name >>)
               ELSE answer[1].ret = Ok(Discovered[First(named)])

\* C21's case: kbd is asked for with no phys when two devices named kbd are
\* discovered, and the answer is the first of them.
C21_Witness ==
    /\ answer # << >>
    /\ answer[1].name = "kbd" /\ answer[1].phys = << >>
    /\ \E i, j \in DOMAIN Discovered :
          /\ i < j
          /\ Discovered[i].name = "kbd" /\ Discovered[j].name = "kbd"
          /\ \A k \in DOMAIN Discovered : k < i => Discovered[k].name # "kbd"
          /\ answer[1].ret = Ok(Discovered[i])

\* C30: a call of with_name with a phys, for which the device list was
\* obtained, returns the first discovered device with that phys, whatever its
\* name is, and an error when there is none; whether a device is found, and
\* which, is the same for every name the call could have been made with.
C30_PhysDecides ==
    (answer # << >> /\ answer[1].phys # << >> /\ answer[1].ret.err # "IoError")
        => LET same == { i \in DOMAIN Discovered :
                           Discovered[i].phys = answer[1].phys }
           IN  /\ same # {} => answer[1].ret = Ok(Discovered[First(same)])
               /\ same = {} => answer[1].ret.tag = "Err"
               /\ \A name \in QueryNames :
                     LET other == with_name(listing, TRUE, name, answer[1].phys)
                     IN  /\ other.tag = answer[1].ret.tag
                         /\ other.val = answer[1].ret.val

\* C30's case: tablet is asked for with phys usb-1, and the answer is the
\* device with that phys, which is named kbd.
C30_Witness ==
    /\ answer # << >>
    /\ answer[1].name = "tablet" /\ answer[1].phys = Some("usb-1")
    /\ answer[1].ret.tag = "Ok"
    /\ answer[1].ret.val.name = "kbd"
    /\ answer[1].ret.val.phys = Some("usb-1")

\* ---- claims: device list ----

\* The devices of the last obtain_device_list, when it returned a list.
HasList == listed # << >> /\ listed[1].tag = "Ok"

ListedDevices == listed[1].val

\* The path read_dir gives for an entry of /dev/input.
PathOf(entry) == Chars("/dev/input/") \o entry.file

\* C22: the list obtain_device_list returns is in ascending order of the device
\* name and, among devices of one name, in ascending order of the number after
\* "event" in the path, a suffix that is no number counting as 0.
C22_SortedByNameThenNumber ==
    HasList =>
        \A i, j \in DOMAIN ListedDevices :
            i < j =>
                LET a == ListedDevices[i]
                    b == ListedDevices[j]
                IN  \/ NameRank(a.name) < NameRank(b.name)
                    \/ /\ a.name = b.name
                       /\ event_number_from_path(a.path)
                              <= event_number_from_path(b.path)

\* C22's case: read_dir yields event2, eventX and event10, and the list is
\* event10 (kbd), then eventX (pad, counted as 0), then event2 (pad).
C22_Witness ==
    /\ HasList
    /\ Len(listing) = 3
    /\ listing[1].file = Chars("event") \o << "2" >>
    /\ listing[2].file = Chars("event") \o << "X" >>
    /\ listing[3].file = Chars("event") \o << "1", "0" >>
    /\ Len(ListedDevices) = 3
    /\ ListedDevices[1].path = PathOf(listing[3])
    /\ ListedDevices[2].path = PathOf(listing[2])
    /\ ListedDevices[3].path = PathOf(listing[1])

\* The orders read_dir may yield the same entries in.
Reorderings(ls) == { p \in [DOMAIN ls -> Range(ls)] : Range(p) = Range(ls) }

\* C23: the list obtain_device_list returns is the same for every order in
\* which read_dir yields the same entries, also when two entries have the same
\* name and the same number.
C23_OrderIndependent ==
    HasList =>
        \A p \in Reorderings(listing) : obtain_device_list(p, TRUE) = listed[1]

\* The file name is "event" followed by a decimal number.
NamedByConvention(file) ==
    /\ Len(file) > 5
    /\ SubSeq(file, 1, 5) = << "e", "v", "e", "n", "t" >>
    /\ \A i \in 6..Len(file) : IsDigit(file[i])

\* C24, as stated: the entries obtain_device_list opens are the entries that
\* are no directory and whose file name is "event" followed by a number.
C24_OpensConventionOnly ==
    (listed # << >> /\ listed[1].err # "IoError") =>
        \A e \in Range(listing) :
            e.file \in opened <=> (~e.is_dir /\ NamedByConvention(e.file))

\* C24, amended: the entries obtain_device_list opens are the entries that are
\* no directory and whose file name starts with "event", whatever follows;
\* every other entry is skipped without being opened.
C24_OpensEventPrefix ==
    (listed # << >> /\ listed[1].err # "IoError") =>
        \A e \in Range(listing) :
            e.file \in opened
                <=> /\ ~e.is_dir
                    /\ Len(e.file) >= 5
                    /\ SubSeq(e.file, 1, 5) = << "e", "v", "e", "n", "t" >>

\* C24's case: /dev/input holds eventX, mouse0 and the directory event9; only
\* eventX is opened, and it is listed.
C24_Witness ==
    /\ HasList
    /\ { e.file : e \in Range(listing) }
           = { Chars("event") \o << "X" >>, Chars("mouse") \o << "0" >>,
               Chars("event") \o << "9" >> }
    /\ opened = { Chars("event") \o << "X" >> }
    /\ Len(ListedDevices) = 1
    /\ ListedDevices[1].path = Chars("/dev/input/") \o Chars("event") \o << "X" >>

\* C25: when the directory can be read, obtain_device_list returns a list, and
\* the list holds each opened entry that opens and probes, once, and no other
\* device: an entry that fails is left out and the others are kept.
C25_FailuresSkipped ==
    (listed # << >> /\ listed[1].err # "IoError") =>
        /\ listed[1].tag = "Ok"
        /\ { d.path : d \in Range(ListedDevices) }
               = { PathOf(e) : e \in { x \in Range(listing) :
                                         x.file \in opened /\ x.probe = "ok" } }
        /\ \A i, j \in DOMAIN ListedDevices :
               ListedDevices[i].path = ListedDevices[j].path => i = j
        /\ \A d \in Range(ListedDevices) :
               \E e \in Range(listing) :
                   /\ d.path = PathOf(e)
                   /\ d.name = e.name /\ d.phys = e.phys
                   /\ d.supports_remap = e.keys

\* C25's case: event5 cannot be opened and event4 cannot be probed, they are
\* read before event3, and the list is event3 alone.
C25_Witness ==
    /\ HasList
    /\ Len(listing) = 3
    /\ listing[1].probe = "open_err"
    /\ listing[2].probe = "evdev_err"
    /\ listing[3].probe = "ok"
    /\ { listing[1].file, listing[2].file } \subseteq opened
    /\ Len(ListedDevices) = 1
    /\ ListedDevices[1].path = PathOf(listing[3])

\* ---- claims: device editor ----

\* C27: after AppMsg::SetDevice(dev) the name entry of the editor holds the
\* name of dev and the phys entry holds the phys of dev, the empty text when
\* dev has no phys, whatever the entries held before.
C27_SetDeviceCopiesNameAndPhys ==
    picked # << >> =>
        /\ cfg_name = picked[1].name
        /\ cfg_phys = IF picked[1].phys = << >> THEN "" ELSE picked[1].phys[1]

\* ---- claims: key combination, part two ----

\* C26: in a combination constructed from a key sequence and changed by push,
\* pop and clear, no key of the ordered keys is one of the nine modifiers, and
\* every modifier the combination holds is a bit of the modifier mask; each of
\* the nine modifiers, loaded or pushed next, leaves the ordered keys as they
\* are and is a bit of the mask afterwards.
C26_NoModifierInKeys ==
    /\ \A i \in DOMAIN combo.keys : combo.keys[i] \notin Range(MODIFIERS)
    /\ \A k \in held \cap Range(MODIFIERS) : contains(combo.modifiers, k)
    /\ \A m \in Range(MODIFIERS) :
           /\ push(combo, m).keys = combo.keys
           /\ contains(push(combo, m).modifiers, m)
           /\ from_iter(to_keys(combo) \o << m >>).keys = combo.keys
           /\ contains(from_iter(to_keys(combo) \o << m >>).modifiers, m)

\* C26's case: a modifier is pushed to a combination that holds a key and
\* another modifier; the keys are the one key and both modifiers are in the mask.
C26_Witness ==
    /\ last.op = "push"
    /\ last.arg = "KEY_LEFTSHIFT"
    /\ combo.keys = << "KEY_A" >>
    /\ contains(combo.modifiers, "KEY_LEFTSHIFT")
    /\ contains(combo.modifiers, "KEY_FN")

\* ---- claims: event logger, part three ----

\* The worker whose read gave the NewEvent at the head of the command channel:
\* the workers send one NewEvent for each key read, in the order of the reads,
\* so the messages not yet handled are those of the last key reads.
HeadOrigin == KeyReads[Len(KeyReads) - Len(Forwarded) + 1].w

\* C28: an event appended to the log was forwarded by the worker of the
\* device that is active when it is appended; an event a replaced worker
\* forwards is not appended.
C28_LogOnlyFromActiveWorker ==
    [][(HandlesNewEvent /\ text_buf' # text_buf)
           => HeadOrigin = device[1].chan]_vars

\* C29: while no device is active the log is empty.
C29_NoDeviceEmptyLog == device = << >> => text_buf = << >>

\* C29's case: the one worker there was read a key event after clear_device
\* had asked it to stop, its NewEvent was handled with no device active, and
\* the log is empty with capture not paused.
C29_Witness ==
    /\ ~crashed
    /\ device = << >>
    /\ ~is_paused
    /\ Len(tasks) = 1
    /\ tasks[1].late = 1
    /\ Len(io) = 1
    /\ io[1].call = "next_event" /\ io[1].out.kind = "key"
    /\ cmdq = << >>
    /\ text_buf = << >>

====
